---- MODULE Spec2Model ----
(***************************************************************************)
(* Comet Edge Proxy: the edge handler (api/proxy.js), its HTMLRewriter     *)
(* handlers and the client URL utilities (public/cep.js).                  *)
(*                                                                         *)
(* JavaScript strings are sequences of code points (integers), so that     *)
(* startsWith, includes, replace, encodeURIComponent and                   *)
(* decodeURIComponent are computed character by character.                 *)
(***************************************************************************)
EXTENDS Integers, Sequences, FiniteSets, TLC

(***************************************************************************)
(* Strings                                                                 *)
(***************************************************************************)

\* The printable ASCII characters in code order, starting at code 32 (the
\* grave accent, code 96, is spelled out).
Ascii ==
  << " ", "!", "\"", "#", "$", "%", "&", "'", "(", ")", "*", "+", ",", "-", ".", "/",
     "0", "1", "2", "3", "4", "5", "6", "7", "8", "9", ":", ";", "<", "=", ">", "?",
     "@", "A", "B", "C", "D", "E", "F", "G", "H", "I", "J", "K", "L", "M", "N", "O",
     "P", "Q", "R", "S", "T", "U", "V", "W", "X", "Y", "Z", "[", "\\", "]", "^", "_",
     "grave", "a", "b", "c", "d", "e", "f", "g", "h", "i", "j", "k", "l", "m", "n", "o",
     "p", "q", "r", "s", "t", "u", "v", "w", "x", "y", "z", "{", "|", "}", "~" >>

\* Code of a single character.
Ord(c) == 31 + (CHOOSE i \in DOMAIN Ascii : Ascii[i] = c)

\* A string literal, written as a tuple of characters, as a JavaScript string.
S(lit) == [i \in DOMAIN lit |-> Ord(lit[i])]

StartsWith(s, p) == Len(s) >= Len(p) /\ SubSeq(s, 1, Len(p)) = p

\* String.prototype.indexOf, 1-based; 0 when p does not occur in s.
IndexOf(s, p) ==
  LET hits == {i \in 1..(Len(s) - Len(p) + 1) : SubSeq(s, i, i + Len(p) - 1) = p}
  IN  IF hits = {} THEN 0 ELSE CHOOSE i \in hits : \A j \in hits : i <= j

Includes(s, p) == IndexOf(s, p) # 0

\* String.prototype.replace with a string pattern: the first occurrence only.
ReplaceFirst(s, p, r) ==
  LET i == IndexOf(s, p)
  IN  IF i = 0 THEN s
      ELSE SubSeq(s, 1, i - 1) \o r \o SubSeq(s, i + Len(p), Len(s))

RECURSIVE Flatten(_)
Flatten(ss) == IF ss = << >> THEN << >> ELSE Head(ss) \o Flatten(Tail(ss))

IsDigit(c) == c >= 48 /\ c <= 57
IsUpper(c) == c >= 65 /\ c <= 90
IsLower(c) == c >= 97 /\ c <= 122
IsAlpha(c) == IsUpper(c) \/ IsLower(c)
IsHexDigit(c) == IsDigit(c) \/ (c >= 65 /\ c <= 70) \/ (c >= 97 /\ c <= 102)
HexVal(c) == IF IsDigit(c) THEN c - 48 ELSE IF c >= 97 THEN c - 87 ELSE c - 55
HexChar(n) == IF n < 10 THEN 48 + n ELSE 55 + n
ToLowerChar(c) == IF IsUpper(c) THEN c + 32 ELSE c
ToLower(s) == [i \in DOMAIN s |-> ToLowerChar(s[i])]

(***************************************************************************)
(* encodeURIComponent / decodeURIComponent (ECMAScript Encode and Decode)  *)
(***************************************************************************)

\* uriUnreserved: letters, digits and - _ . ! ~ * (apostrophe) ( )
UriUnreserved(c) ==
  IsAlpha(c) \/ IsDigit(c) \/ c \in {45, 95, 46, 33, 126, 42, 39, 40, 41}

\* The UTF-8 octets of a code point of the Basic Multilingual Plane.
Utf8(c) ==
  IF c < 128 THEN << c >>
  ELSE IF c < 2048 THEN << 192 + (c \div 64), 128 + (c % 64) >>
  ELSE << 224 + (c \div 4096), 128 + ((c \div 64) % 64), 128 + (c % 64) >>

PercentOctet(b) == << 37, HexChar(b \div 16), HexChar(b % 16) >>

PercentEncodeChar(c) ==
  LET o == Utf8(c) IN Flatten([i \in DOMAIN o |-> PercentOctet(o[i])])

encodeURIComponent(s) ==
  Flatten([i \in DOMAIN s |->
             IF UriUnreserved(s[i]) THEN << s[i] >> ELSE PercentEncodeChar(s[i])])

\* The octet written %XY at position k of s, or -1 when there is none.
OctetAt(s, k) ==
  IF k + 2 <= Len(s) /\ s[k] = 37 /\ IsHexDigit(s[k + 1]) /\ IsHexDigit(s[k + 2])
  THEN 16 * HexVal(s[k + 1]) + HexVal(s[k + 2])
  ELSE -1

\* Number of octets of the UTF-8 sequence a lead octet announces (0: not a lead).
Utf8Length(b) ==
  IF b < 128 THEN 1
  ELSE IF b >= 194 /\ b <= 223 THEN 2
  ELSE IF b >= 224 /\ b <= 239 THEN 3
  ELSE IF b >= 240 /\ b <= 244 THEN 4
  ELSE 0

IsContinuation(b) == b >= 128 /\ b <= 191

\* The code point of a well-formed UTF-8 sequence of octets, or -1.
Utf8Decode(o) ==
  LET n == Len(o)
      cp == IF n = 1 THEN o[1]
            ELSE IF n = 2 THEN (o[1] - 192) * 64 + (o[2] - 128)
            ELSE IF n = 3 THEN (o[1] - 224) * 4096 + (o[2] - 128) * 64 + (o[3] - 128)
            ELSE (o[1] - 240) * 262144 + (o[2] - 128) * 4096
                   + (o[3] - 128) * 64 + (o[4] - 128)
  IN  IF \E i \in 2..n : ~IsContinuation(o[i]) THEN -1
      ELSE IF n = 3 /\ (cp < 2048 \/ (cp >= 55296 /\ cp <= 57343)) THEN -1
      ELSE IF n = 4 /\ (cp < 65536 \/ cp > 1114111) THEN -1
      ELSE cp

\* Decode from position k on: [ok |-> TRUE, val |-> string], or ok = FALSE
\* where the ECMAScript algorithm throws a URIError.
RECURSIVE DecodeFrom(_, _)
DecodeFrom(s, k) ==
  IF k > Len(s) THEN [ok |-> TRUE, val |-> << >>]
  ELSE IF s[k] # 37
       THEN LET rest == DecodeFrom(s, k + 1)
            IN  [ok |-> rest.ok, val |-> << s[k] >> \o rest.val]
  ELSE LET b == OctetAt(s, k)
           n == IF b < 0 THEN 0 ELSE Utf8Length(b)
           octets == [i \in 1..n |-> OctetAt(s, k + 3 * (i - 1))]
       IN  IF n = 0 \/ \E i \in 1..n : octets[i] < 0
           THEN [ok |-> FALSE, val |-> << >>]
           ELSE LET cp == Utf8Decode(octets)
                    rest == DecodeFrom(s, k + 3 * n)
                IN  IF cp < 0 THEN [ok |-> FALSE, val |-> << >>]
                    ELSE [ok |-> rest.ok, val |-> << cp >> \o rest.val]

decodeURIComponent(s) ==
  LET r == DecodeFrom(s, 1)
  IN  IF r.ok THEN r ELSE [ok |-> FALSE, val |-> << >>]

(***************************************************************************)
(* new URL(url, base).href (WHATWG URL parser), for the URLs the model     *)
(* feeds it: http and https URLs whose host is made of letters, and        *)
(* path-absolute or path-relative references; no query, fragment, port,    *)
(* credentials, backslash or dot segment.                                  *)
(***************************************************************************)

\* Leading and trailing C0 control characters and spaces are removed.
RECURSIVE TrimLeft(_)
TrimLeft(s) == IF s # << >> /\ Head(s) <= 32 THEN TrimLeft(Tail(s)) ELSE s

RECURSIVE TrimRight(_)
TrimRight(s) ==
  IF s # << >> /\ s[Len(s)] <= 32 THEN TrimRight(SubSeq(s, 1, Len(s) - 1)) ELSE s

Trim(s) == TrimRight(TrimLeft(s))

IsSchemeChar(c) == IsAlpha(c) \/ IsDigit(c) \/ c \in {43, 45, 46}

\* Position of the colon that ends a scheme at the start of s, or 0.
SchemeEnd(s) ==
  LET i == IndexOf(s, << 58 >>)
  IN  IF i >= 2 /\ IsAlpha(s[1]) /\ \A j \in 2..(i - 1) : IsSchemeChar(s[j])
      THEN i ELSE 0

HasScheme(s) == SchemeEnd(s) # 0

SchemeOf(s) == ToLower(SubSeq(s, 1, SchemeEnd(s) - 1))

IsSpecialScheme(sch) == sch \in {S(<<"h","t","t","p">>), S(<<"h","t","t","p","s">>)}

RECURSIVE SkipSlashes(_)
SkipSlashes(s) == IF s # << >> /\ Head(s) = 47 THEN SkipSlashes(Tail(s)) ELSE s

\* The path percent-encode set.
InPathEncodeSet(c) == c <= 32 \/ c > 126 \/ c \in {34, 35, 60, 62, 63, 96, 123, 125}

PathEncode(s) ==
  Flatten([i \in DOMAIN s |->
             IF InPathEncodeSet(s[i]) THEN PercentEncodeChar(s[i]) ELSE << s[i] >>])

\* The inputs whose parse the model covers.
UrlModelled(url) ==
  LET t == Trim(url)
  IN  /\ \A i \in DOMAIN t : t[i] \notin {9, 10, 13, 35, 46, 63, 64, 92}
      /\ IF HasScheme(t)
         THEN /\ IsSpecialScheme(SchemeOf(t))
              /\ LET rest == SubSeq(t, SchemeEnd(t) + 1, Len(t))
                     auth == SkipSlashes(rest)
                     slash == IndexOf(auth, << 47 >>)
                     host == IF slash = 0 THEN auth ELSE SubSeq(auth, 1, slash - 1)
                 IN  StartsWith(rest, << 47, 47 >>) /\ \A i \in DOMAIN host : IsAlpha(host[i])
         ELSE ~StartsWith(t, << 47, 47 >>) /\ \A i \in DOMAIN t : t[i] # 58

\* [ok |-> TRUE, href |-> serialization], or ok = FALSE where the parser fails
\* and new URL throws a TypeError.
UrlParse(url, base) ==
  LET t == Trim(url)
  IN  IF HasScheme(t)
      THEN LET auth == SkipSlashes(SubSeq(t, SchemeEnd(t) + 1, Len(t)))
               slash == IndexOf(auth, << 47 >>)
               host == IF slash = 0 THEN auth ELSE SubSeq(auth, 1, slash - 1)
               path == IF slash = 0 THEN << 47 >> ELSE SubSeq(auth, slash, Len(auth))
           IN  IF host = << >> THEN [ok |-> FALSE, href |-> << >>]
               ELSE [ok |-> TRUE,
                     href |-> SchemeOf(t) \o << 58, 47, 47 >> \o ToLower(host)
                                \o PathEncode(path)]
      ELSE IF StartsWith(t, << 47 >>)
           THEN [ok |-> TRUE, href |-> base \o PathEncode(t)]
           ELSE [ok |-> TRUE, href |-> base \o << 47 >> \o PathEncode(t)]

(***************************************************************************)
(* URL rewriting: api/proxy.js ElementHandler.rewriteUrl, public/cep.js    *)
(* URLUtils                                                                *)
(***************************************************************************)

ProxyEndpoint == S(<<"/","p","r","o","x","y","/">>)
DataScheme == S(<<"d","a","t","a",":">>)
JavascriptScheme == S(<<"j","a","v","a","s","c","r","i","p","t",":">>)
BlobScheme == S(<<"b","l","o","b",":">>)

\* window.location.origin of the page the client bundle runs in.
LocationOrigin == S(<<"h","t","t","p","s",":","/","/","o">>)

\* A mutation of rewriteUrl: the URL is not encoded.
rewriteUrlUnencoded(url) ==
  IF url = << >> \/ StartsWith(url, DataScheme) \/ StartsWith(url, JavascriptScheme)
  THEN url
  ELSE ProxyEndpoint \o url

rewriteUrl(url) ==
  IF url = << >> \/ StartsWith(url, DataScheme) \/ StartsWith(url, JavascriptScheme)
  THEN url
  ELSE ProxyEndpoint \o encodeURIComponent(url)

URLUtils_encode(url) ==
  LET absolute == UrlParse(url, LocationOrigin)
  IN  IF absolute.ok THEN encodeURIComponent(absolute.href) ELSE url

URLUtils_decode(encoded) ==
  LET r == decodeURIComponent(encoded)
  IN  IF r.ok THEN r.val ELSE encoded

URLUtils_rewrite(url) ==
  IF url = << >> \/ StartsWith(url, DataScheme) \/ StartsWith(url, JavascriptScheme)
       \/ StartsWith(url, BlobScheme)
  THEN url
  ELSE ProxyEndpoint \o URLUtils_encode(url)

\* handler, lines 89-90: the target named by a request path; ok = FALSE where
\* decodeURIComponent throws.
targetUrl(pathname) == ReplaceFirst(pathname, ProxyEndpoint, << >>)

decodedUrl(pathname) == decodeURIComponent(targetUrl(pathname))

(***************************************************************************)
(* HTMLRewriter element handlers (api/proxy.js)                            *)
(*                                                                         *)
(* A document is a sequence of tokens [k, tag, attrs]: k is "start", "end" *)
(* or "text"; attrs is the start tag's attribute list, in source order,    *)
(* each [name, value]. On output, k = "inject" marks a fragment appended   *)
(* by a handler, tag naming the fragment.                                  *)
(***************************************************************************)

StartTag(tag, attrs) == [k |-> "start", tag |-> tag, attrs |-> attrs]
EndTag(tag) == [k |-> "end", tag |-> tag, attrs |-> << >>]
Text == [k |-> "text", tag |-> "", attrs |-> << >>]
Fragment(name) == [k |-> "inject", tag |-> name, attrs |-> << >>]

\* element.getAttribute(name): has = FALSE stands for null.
getAttribute(attrs, name) ==
  LET hits == {i \in DOMAIN attrs : attrs[i].name = name}
  IN  IF hits = {} THEN [has |-> FALSE, value |-> << >>]
      ELSE [has |-> TRUE,
            value |-> attrs[CHOOSE i \in hits : \A j \in hits : i <= j].value]

\* A mutation of setAttribute: the attribute is removed and re-added last.
setAttributeMovesLast(attrs, name, value) ==
  SelectSeq(attrs, LAMBDA a : a.name # name) \o << [name |-> name, value |-> value] >>

\* element.setAttribute(name, value): an attribute already on the tag keeps its
\* place, a new one is added last.
setAttribute(attrs, name, value) ==
  IF \E i \in DOMAIN attrs : attrs[i].name = name
  THEN [i \in DOMAIN attrs |->
          IF attrs[i].name = name THEN [name |-> name, value |-> value] ELSE attrs[i]]
  ELSE Append(attrs, [name |-> name, value |-> value])

\* ElementHandler.element, line 16.
RewritableAttrs == << "href", "src", "action", "data" >>

\* ElementHandler.element, lines 17-22: the attribute list after the forEach
\* has run over the first n names.
RECURSIVE ElementHandler_rewrite(_, _)
ElementHandler_rewrite(attrs, n) ==
  IF n = 0 THEN attrs
  ELSE LET done == ElementHandler_rewrite(attrs, n - 1)
           value == getAttribute(done, RewritableAttrs[n])
       IN  IF value.has /\ value.value # << >>
           THEN setAttribute(done, RewritableAttrs[n], rewriteUrl(value.value))
           ELSE done

ElementHandler_element(attrs) == ElementHandler_rewrite(attrs, Len(RewritableAttrs))

\* The selector the ElementHandler is registered on, line 118.
ElementSelector == {"a", "link", "script", "img", "iframe", "form"}

\* A mutation of the flag test: a conventional default-off flag.
ErudaEnabledDefaultOff(config) ==
  config.DEV_FEATURES.present /\ config.DEV_FEATURES.eruda = "true"

\* config.DEV_FEATURES || {}, then devFeatures.eruda !== false.
ErudaEnabled(config) ==
  ~(config.DEV_FEATURES.present /\ config.DEV_FEATURES.eruda = "false")

\* A mutation of HeadHandler.element: the debug-tool script is appended first.
HeadHandler_elementErudaFirst(config) ==
  (IF ErudaEnabled(config) THEN << Fragment("script:eruda") >> ELSE << >>)
    \o << Fragment("script:/cep.js") >>

\* HeadHandler.element: the fragments appended, in order.
HeadHandler_element(config) ==
  << Fragment("script:/cep.js") >>
    \o (IF ErudaEnabled(config) THEN << Fragment("script:eruda") >> ELSE << >>)

\* BodyHandler.element: the fragments appended, in order.
BodyHandler_element(config) ==
  IF ErudaEnabled(config) THEN << Fragment("div#cep-debug-trigger") >> ELSE << >>

\* Elements that have no end tag and no content.
VoidTags == {"img", "link"}

(***************************************************************************)
(* getEdgeConfig                                                           *)
(***************************************************************************)

NoConfig ==
  [DEV_FEATURES |-> [present |-> FALSE, eruda |-> "undefined", customTheme |-> "undefined"],
   ENCODING_KEY |-> "", BLOCKLIST |-> << >>]

\* The try block only builds an object literal, so the catch block never runs.
getEdgeConfig ==
  [DEV_FEATURES |-> [present |-> TRUE, eruda |-> "true", customTheme |-> "false"],
   ENCODING_KEY |-> "comet-proxy-v1", BLOCKLIST |-> << >>]

\* A mutation of the catch block: the fallback switches the debug tool off.
getEdgeConfigFallbackErudaOff ==
  [DEV_FEATURES |-> [present |-> TRUE, eruda |-> "false", customTheme |-> "undefined"],
   ENCODING_KEY |-> "comet-proxy-v1", BLOCKLIST |-> << >>]

\* The catch block, lines 157-164: what getEdgeConfig returns when the try
\* block throws.
getEdgeConfigFallback ==
  [DEV_FEATURES |-> [present |-> TRUE, eruda |-> "true", customTheme |-> "undefined"],
   ENCODING_KEY |-> "comet-proxy-v1", BLOCKLIST |-> << >>]

(***************************************************************************)
(* Headers and responses                                                   *)
(***************************************************************************)

ContentType == "content-type"
XProxiedBy == "x-proxied-by"
AccessControlAllowOrigin == "access-control-allow-origin"

TextHtml == S(<<"t","e","x","t","/","h","t","m","l">>)
TextPlain == S(<<"t","e","x","t","/","p","l","a","i","n">>)
\* The content type the platform gives a Response built from a string.
TextPlainUtf8 == TextPlain \o S(<<";","c","h","a","r","s","e","t","=","U","T","F","-","8">>)
CometEdgeProxy == S(<<"C","o","m","e","t","-","E","d","g","e","-","P","r","o","x","y">>)
Star == S(<<"*">>)

\* Headers are sets of [name, value], names in lower case.
HeadersHas(h, name) == \E x \in h : x.name = name
HeadersGet(h, name) ==
  IF HeadersHas(h, name) THEN (CHOOSE x \in h : x.name = name).value ELSE << >>
HeadersSet(h, name, value) ==
  {x \in h : x.name # name} \cup {[name |-> name, value |-> value]}

NoResponse == [sent |-> FALSE, status |-> 0, headers |-> {}, text |-> << >>]

\* Line 93.
MissingTargetResponse ==
  [sent |-> TRUE, status |-> 400,
   headers |-> {[name |-> ContentType, value |-> TextPlainUtf8]},
   text |-> << "Missing target URL" >>]

\* A mutation of the catch block: the response is built without the message.
ErrorResponseNoMessage(message) ==
  [sent |-> TRUE, status |-> 500,
   headers |-> {[name |-> ContentType, value |-> TextPlain]},
   text |-> << "Proxy Error" >>]

\* Lines 132-138.
ErrorResponse(message) ==
  [sent |-> TRUE, status |-> 500,
   headers |-> {[name |-> ContentType, value |-> TextPlain]},
   text |-> << "Proxy Error: ", message >>]

\* A mutation of line 110: the negation is lost.
IsHtmlResponseInverted(contentType) == ~Includes(contentType, TextHtml)

\* Line 110: contentType.includes('text/html').
IsHtmlResponse(contentType) == Includes(contentType, TextHtml)

\* Lines 122-130.
TransformedResponse(upstreamResponse) ==
  [sent |-> TRUE, status |-> upstreamResponse.status,
   headers |-> HeadersSet(HeadersSet(upstreamResponse.headers, XProxiedBy, CometEdgeProxy),
                          AccessControlAllowOrigin, Star),
   text |-> << >>]

\* Line 111: the upstream response itself.
PassthroughResponse(upstreamResponse) ==
  [sent |-> TRUE, status |-> upstreamResponse.status,
   headers |-> upstreamResponse.headers, text |-> << >>]

(***************************************************************************)
(* Bounds and inputs                                                       *)
(***************************************************************************)

\* Most head elements, body elements in an upstream document.
MaxHeads == 2
MaxBodies == 2
\* Most attributes on the document's inner element.
MaxAttrs == 2
\* Longest free part of a URL given to the URL utilities.
MaxTail == 3

SeqsUpTo(X, n) == UNION {[1..k -> X] : k \in 0..n}

HttpA == S(<<"h","t","t","p",":","/","/","a","/">>)

AttrNames == {"href", "data", "id"}
AttrValues == {<< >>, HttpA}
AttrLists ==
  {l \in SeqsUpTo([name : AttrNames, value : AttrValues], MaxAttrs) :
     \A i, j \in DOMAIN l : i # j => l[i].name # l[j].name}

InnerTags == {"a", "img", "div"}

ElementTokens(tag, attrs) ==
  IF tag \in VoidTags THEN << StartTag(tag, attrs) >>
  ELSE << StartTag(tag, attrs), Text, EndTag(tag) >>

RECURSIVE Repeat(_, _)
Repeat(ts, n) == IF n = 0 THEN << >> ELSE ts \o Repeat(ts, n - 1)

\* nh head elements, each with a child, then nb body elements, the first (or
\* the document itself when there is none) holding the inner element.
Document(nh, nb, inner) ==
  Repeat(<< StartTag("head", << >>), Text, EndTag("head") >>, nh)
    \o (IF nb = 0 THEN inner
        ELSE << StartTag("body", << >>) >> \o inner \o << EndTag("body") >>
               \o Repeat(<< StartTag("body", << >>), EndTag("body") >>, nb - 1))

Documents ==
  {Document(nh, nb, << >>) : nh \in 0..MaxHeads, nb \in 0..MaxBodies}
    \cup {Document(nh, nb, ElementTokens(t, l)) :
            nh \in 0..MaxHeads, nb \in 0..MaxBodies, t \in InnerTags, l \in AttrLists}

ApplicationJson == S(<<"a","p","p","l","i","c","a","t","i","o","n","/","j","s","o","n">>)
ImagePng == S(<<"i","m","a","g","e","/","p","n","g">>)
CharsetParam == S(<<";"," ","c","h","a","r","s","e","t","=","u","t","f","-","8">>)

\* Upstream content-type headers; the empty string stands for a missing header
\* (line 107 reads a missing header as '').
ContentTypes ==
  {<< >>, TextHtml, TextHtml \o CharsetParam, ApplicationJson, ImagePng}

UpstreamOrigin == S(<<"h","t","t","p","s",":","/","/","u","p">>)

UpstreamHeaders(contentType, acao) ==
  (IF contentType = << >> THEN {} ELSE {[name |-> ContentType, value |-> contentType]})
    \cup (IF acao THEN {[name |-> AccessControlAllowOrigin, value |-> UpstreamOrigin]}
          ELSE {})

\* Request paths: a prefix, then a target segment.
PathPrefixes ==
  {ProxyEndpoint, S(<<"/","p","r","o","x","y">>), S(<<"/">>)}
PathSegments ==
  {<< >>, S(<<"%">>), S(<<"f","o","o">>), S(<<"%","E","0","%","A","4","%","A">>),
   encodeURIComponent(HttpA), encodeURIComponent(LocationOrigin)}
Paths == {p \o t : p \in PathPrefixes, t \in PathSegments}

(***************************************************************************)
(* The handler, one request                                                *)
(***************************************************************************)

VARIABLES
  pc,              \* where the handler is
  reqPath,         \* new URL(req.url).pathname
  reqUserAgent,    \* req.headers.get('user-agent'), "" for null
  decoded,         \* decodedUrl
  edgeConfig,      \* the configuration the request loaded
  fetchCalls,      \* the calls of fetch made so far: [url, userAgent]
  upstream,        \* the outcome of the upstream fetch
  response,        \* the Response the handler returned
  engineInvoked,   \* rewriter.transform was called
  pos,             \* next token of the upstream body to rewrite
  open,            \* open elements, innermost last: [tag, appended]
  out,             \* the body delivered so far, as tokens
  headInjections,  \* runs of HeadHandler.element that appended
  bodyInjections,  \* runs of BodyHandler.element that appended
  configLoad,      \* how the configuration was loaded: "none", "ok", "failed"
  client           \* "connected", or when the client went away

hvars == << pc, reqPath, reqUserAgent, decoded, edgeConfig, fetchCalls, upstream,
            response, engineInvoked, pos, open, out, headInjections, bodyInjections,
            configLoad, client >>

\* The state of the URL utilities' own specification (SpecCodec).
VARIABLES
  cstage,   \* "off", "input", "rewritten", "decoded"
  cin,      \* the URL given to the rewrite
  cside,    \* "server" (ElementHandler.rewriteUrl) or "client" (URLUtils.rewrite)
  cout,     \* the rewritten value
  cby,      \* "handler" (lines 89-90) or "utils" (URLUtils.decode)
  cdec      \* the decoded target: [ok, val]

cvars == << cstage, cin, cside, cout, cby, cdec >>

\* The state of the injection handlers' own specification (SpecInject).
VARIABLES
  icfg,      \* the configuration snapshot the handlers were built with
  iheadRan,  \* HeadHandler.element has run
  ihead,     \* what it appended
  ibodyRan,  \* BodyHandler.element has run
  ibody      \* what it appended

ivars == << icfg, iheadRan, ihead, ibodyRan, ibody >>

\* The state of the service worker (public/sw-handler.js).
VARIABLES
  swState,      \* lifecycle of the worker
  caches,       \* CacheStorage: the caches in creation order, [name, id, entries]
  nextCacheId,  \* identity of the next cache created
  events,       \* the fetch events dispatched so far
  ops,          \* the fetchAndCache calls made so far
  clear         \* the CLEAR_CACHE command

wvars == << swState, caches, nextCacheId, events, ops, clear >>

vars == << hvars, cvars, ivars, wvars >>
nonHandler == << cvars, ivars, wvars >>
nonCodec == << hvars, ivars, wvars >>
nonInject == << hvars, cvars, wvars >>
nonWorker == << hvars, cvars, ivars >>

NoUpstream ==
  [outcome |-> "none", message |-> "", status |-> 0, headers |-> {}, body |-> << >>]

HandlerInit ==
  /\ pc = "Idle"
  /\ reqPath = << >>
  /\ reqUserAgent = ""
  /\ decoded = << >>
  /\ edgeConfig = NoConfig
  /\ fetchCalls = << >>
  /\ upstream = NoUpstream
  /\ response = NoResponse
  /\ engineInvoked = FALSE
  /\ pos = 0
  /\ open = << >>
  /\ out = << >>
  /\ headInjections = 0
  /\ bodyInjections = 0
  /\ configLoad = "none"
  /\ client = "connected"

\* The platform hands the handler a request.
Receive ==
  /\ pc = "Idle"
  /\ \E path \in Paths, ua \in {"", "TestAgent/1.0"} :
       /\ reqPath' = path
       /\ reqUserAgent' = ua
  /\ pc' = "ParsingPath"
  /\ UNCHANGED << decoded, edgeConfig, fetchCalls, upstream, response, engineInvoked,
                  pos, open, out, headInjections, bodyInjections >>
  /\ UNCHANGED << configLoad, client >>
  /\ UNCHANGED nonHandler

\* Lines 86-94. decodeURIComponent is outside the try block: a URIError leaves
\* the handler as an uncaught exception.
ParsePath ==
  /\ pc = "ParsingPath"
  /\ LET d == decodedUrl(reqPath)
     IN  IF ~d.ok
         THEN /\ pc' = "Threw"
              /\ UNCHANGED << decoded, response >>
         ELSE IF d.val = << >>
         THEN /\ pc' = "Done"
              /\ decoded' = d.val
              /\ response' = MissingTargetResponse
         ELSE /\ pc' = "LoadingConfig"
              /\ decoded' = d.val
              /\ UNCHANGED response
  /\ UNCHANGED << reqPath, reqUserAgent, edgeConfig, fetchCalls, upstream,
                  engineInvoked, pos, open, out, headInjections, bodyInjections >>
  /\ UNCHANGED << configLoad, client >>
  /\ UNCHANGED nonHandler

\* Lines 98-105: the configuration is loaded and fetch is called.
LoadConfigAndFetch ==
  /\ pc = "LoadingConfig"
  /\ edgeConfig' = getEdgeConfig
  /\ fetchCalls' = Append(fetchCalls,
                          [url |-> decoded,
                           userAgent |-> IF reqUserAgent = "" THEN "Mozilla/5.0"
                                         ELSE reqUserAgent])
  /\ upstream' = [upstream EXCEPT !.outcome = "pending"]
  /\ pc' = "FetchingUpstream"
  /\ UNCHANGED << reqPath, reqUserAgent, decoded, response, engineInvoked, pos, open,
                  out, headInjections, bodyInjections >>
  /\ UNCHANGED client
  /\ configLoad' = "ok"
  /\ UNCHANGED nonHandler

\* Lines 98-105 when the configuration store cannot be read: the read of the
\* store (lines 145-146) throws inside the try block, the catch block returns
\* the fallback, and the handler goes on to fetch.
LoadConfigFailsAndFetch ==
  /\ pc = "LoadingConfig"
  /\ edgeConfig' = getEdgeConfigFallback
  /\ fetchCalls' = Append(fetchCalls,
                          [url |-> decoded,
                           userAgent |-> IF reqUserAgent = "" THEN "Mozilla/5.0"
                                         ELSE reqUserAgent])
  /\ upstream' = [upstream EXCEPT !.outcome = "pending"]
  /\ pc' = "FetchingUpstream"
  /\ UNCHANGED << reqPath, reqUserAgent, decoded, response, engineInvoked, pos, open,
                  out, headInjections, bodyInjections >>
  /\ UNCHANGED client
  /\ configLoad' = "failed"
  /\ UNCHANGED nonHandler

\* fetch rejects: a string that is not an absolute URL is refused by fetch itself,
\* any URL can fail on the network. The catch block answers (lines 132-138).
UpstreamFails ==
  /\ pc = "FetchingUpstream"
  /\ \E message \in (IF HasScheme(decoded) THEN {"fetch failed"} ELSE {"Invalid URL"}) :
       /\ upstream' = [upstream EXCEPT !.outcome = "error", !.message = message]
       /\ response' = ErrorResponse(message)
  /\ pc' = "Done"
  /\ UNCHANGED << reqPath, reqUserAgent, decoded, edgeConfig, fetchCalls, engineInvoked,
                  pos, open, out, headInjections, bodyInjections >>
  /\ UNCHANGED << configLoad, client >>
  /\ UNCHANGED nonHandler

\* fetch resolves with the upstream response.
UpstreamResponds ==
  /\ pc = "FetchingUpstream"
  /\ HasScheme(decoded)
  /\ \E status \in {200, 404}, contentType \in ContentTypes, acao \in BOOLEAN,
        body \in Documents :
       upstream' = [outcome |-> "response", message |-> "", status |-> status,
                    headers |-> UpstreamHeaders(contentType, acao), body |-> body]
  /\ pc' = "Branching"
  /\ UNCHANGED << reqPath, reqUserAgent, decoded, edgeConfig, fetchCalls, response,
                  engineInvoked, pos, open, out, headInjections, bodyInjections >>
  /\ UNCHANGED << configLoad, client >>
  /\ UNCHANGED nonHandler

\* Lines 107-112: a response that is not HTML is returned as it is, and its body
\* reaches the client untouched.
Passthrough ==
  /\ pc = "Branching"
  /\ ~IsHtmlResponse(HeadersGet(upstream.headers, ContentType))
  /\ response' = PassthroughResponse(upstream)
  /\ out' = upstream.body
  /\ pc' = "Done"
  /\ UNCHANGED << reqPath, reqUserAgent, decoded, edgeConfig, fetchCalls, upstream,
                  engineInvoked, pos, open, headInjections, bodyInjections >>
  /\ UNCHANGED << configLoad, client >>
  /\ UNCHANGED nonHandler

\* Lines 107-130: the rewriter is set up and the response is returned with its
\* status and headers; the body is rewritten as it streams.
Transform ==
  /\ pc = "Branching"
  /\ IsHtmlResponse(HeadersGet(upstream.headers, ContentType))
  /\ engineInvoked' = TRUE
  /\ response' = TransformedResponse(upstream)
  /\ pos' = 1
  /\ pc' = "Streaming"
  /\ UNCHANGED << reqPath, reqUserAgent, decoded, edgeConfig, fetchCalls, upstream,
                  open, out, headInjections, bodyInjections >>
  /\ UNCHANGED << configLoad, client >>
  /\ UNCHANGED nonHandler

\* What the handlers registered on lines 116-118 append to a start tag.
Appended(tag, config) ==
  IF tag = "head" THEN HeadHandler_element(config)
  ELSE IF tag = "body" THEN BodyHandler_element(config)
  ELSE << >>

\* The start tag as it leaves the rewriter.
RewrittenStartTag(token) ==
  IF token.tag \in ElementSelector
  THEN StartTag(token.tag, ElementHandler_element(token.attrs))
  ELSE token

\* The rewriter takes the next token of the upstream body. A start tag runs the
\* handlers whose selector matches; what a handler appends is written just
\* before the element's end tag.
StreamToken ==
  /\ pc = "Streaming"
  /\ pos <= Len(upstream.body)
  /\ LET token == upstream.body[pos]
         appended == Appended(token.tag, edgeConfig)
     IN  /\ IF token.k = "start"
            THEN /\ out' = Append(out, RewrittenStartTag(token))
                 /\ open' = IF token.tag \in VoidTags THEN open
                            ELSE Append(open, [tag |-> token.tag, appended |-> appended])
                 /\ headInjections' =
                      headInjections + (IF token.tag = "head" /\ appended # << >> THEN 1 ELSE 0)
                 /\ bodyInjections' =
                      bodyInjections + (IF token.tag = "body" /\ appended # << >> THEN 1 ELSE 0)
            ELSE IF token.k = "end"
            THEN /\ out' = out \o open[Len(open)].appended \o << token >>
                 /\ open' = SubSeq(open, 1, Len(open) - 1)
                 /\ UNCHANGED << headInjections, bodyInjections >>
            ELSE /\ out' = Append(out, token)
                 /\ UNCHANGED << open, headInjections, bodyInjections >>
  /\ pos' = pos + 1
  /\ pc' = IF pos = Len(upstream.body) THEN "Done" ELSE "Streaming"
  /\ UNCHANGED << reqPath, reqUserAgent, decoded, edgeConfig, fetchCalls, upstream,
                  response, engineInvoked >>
  /\ UNCHANGED << configLoad, client >>
  /\ UNCHANGED nonHandler

\* An empty upstream body: the stream ends at once.
StreamEmpty ==
  /\ pc = "Streaming"
  /\ upstream.body = << >>
  /\ pc' = "Done"
  /\ UNCHANGED << reqPath, reqUserAgent, decoded, edgeConfig, fetchCalls, upstream,
                  response, engineInvoked, pos, open, out, headInjections, bodyInjections >>
  /\ UNCHANGED << configLoad, client >>
  /\ UNCHANGED nonHandler

HandlerNext ==
  \/ Receive
  \/ ParsePath
  \/ LoadConfigAndFetch
  \/ UpstreamFails
  \/ UpstreamResponds
  \/ Passthrough
  \/ Transform
  \/ StreamToken
  \/ StreamEmpty

(***************************************************************************)
(* The URL utilities on their own: a URL is rewritten by the server's      *)
(* ElementHandler or by the client's URLUtils, the rewritten value is      *)
(* requested, and the target is decoded from it.                           *)
(***************************************************************************)

TailChars == {Ord("x"), Ord("/"), Ord("%"), Ord("4"), Ord(" ")}
Tails == SeqsUpTo(TailChars, MaxTail)

SkippedSchemes == {DataScheme, JavascriptScheme, BlobScheme}

AbsoluteInputs ==
  {sch \o host \o path :
     sch \in {S(<<"h","t","t","p",":","/","/">>), S(<<"H","T","T","P","S",":","/","/">>)},
     host \in {S(<<"a">>), S(<<"B">>)},
     path \in {<< >>} \cup {<< 47 >> \o t : t \in Tails}}

RelativeInputs ==
  {u \in Tails \cup {<< 47 >> \o t : t \in Tails} : u # << >> /\ UrlModelled(u)}

CodecInputs ==
  {<< >>, S(<<"h","t","t","p",":","/","/">>)}
    \cup {p \o t : p \in SkippedSchemes, t \in Tails}
    \cup AbsoluteInputs
    \cup RelativeInputs

CodecOff ==
  /\ cstage = "off"
  /\ cin = << >>
  /\ cside = ""
  /\ cout = << >>
  /\ cby = ""
  /\ cdec = [ok |-> FALSE, val |-> << >>]

CodecInit ==
  /\ cstage = "input"
  /\ cin \in CodecInputs
  /\ cside = ""
  /\ cout = << >>
  /\ cby = ""
  /\ cdec = [ok |-> FALSE, val |-> << >>]

\* ElementHandler.element, line 20: the attribute value is rewritten.
ServerRewrite ==
  /\ cstage = "input"
  /\ cside' = "server"
  /\ cout' = rewriteUrl(cin)
  /\ cstage' = "rewritten"
  /\ UNCHANGED << cin, cby, cdec >>
  /\ UNCHANGED nonCodec

\* window.comet.utils.rewriteUrl.
ClientRewrite ==
  /\ cstage = "input"
  /\ cside' = "client"
  /\ cout' = URLUtils_rewrite(cin)
  /\ cstage' = "rewritten"
  /\ UNCHANGED << cin, cby, cdec >>
  /\ UNCHANGED nonCodec

\* The pathname of a request for a rewritten value: the URL parser
\* percent-encodes the characters of the path percent-encode set.
RequestPath(value) == PathEncode(value)

\* The rewritten value is requested and the handler decodes its target.
HandlerDecode ==
  /\ cstage = "rewritten"
  /\ StartsWith(cout, ProxyEndpoint)
  /\ cby' = "handler"
  /\ cdec' = decodedUrl(RequestPath(cout))
  /\ cstage' = "decoded"
  /\ UNCHANGED << cin, cside, cout >>
  /\ UNCHANGED nonCodec

\* window.comet.utils.decodeUrl on what follows the proxy prefix.
UtilsDecode ==
  /\ cstage = "rewritten"
  /\ StartsWith(cout, ProxyEndpoint)
  /\ cby' = "utils"
  /\ cdec' = [ok |-> TRUE,
              val |-> URLUtils_decode(SubSeq(cout, Len(ProxyEndpoint) + 1, Len(cout)))]
  /\ cstage' = "decoded"
  /\ UNCHANGED << cin, cside, cout >>
  /\ UNCHANGED nonCodec

CodecNext ==
  \/ ServerRewrite
  \/ ClientRewrite
  \/ HandlerDecode
  \/ UtilsDecode

(***************************************************************************)
(* The injection handlers on their own: HeadHandler and BodyHandler are    *)
(* built with a configuration snapshot and run on an element.              *)
(***************************************************************************)

\* JavaScript values of a flag, by name.
FlagValues == {"true", "false", "undefined", "null"}

\* Configuration snapshots: DEV_FEATURES may be missing, and so may each flag.
Configs ==
  {[DEV_FEATURES |-> f, ENCODING_KEY |-> k, BLOCKLIST |-> b] :
     f \in {NoConfig.DEV_FEATURES}
            \cup [present : {TRUE}, eruda : FlagValues, customTheme : FlagValues],
     k \in {"", "comet-proxy-v1"},
     b \in {<< >>, << "blocked.example" >>}}

InjectOff ==
  /\ icfg = NoConfig
  /\ iheadRan = FALSE
  /\ ihead = << >>
  /\ ibodyRan = FALSE
  /\ ibody = << >>

InjectInit ==
  /\ icfg \in Configs
  /\ iheadRan = FALSE
  /\ ihead = << >>
  /\ ibodyRan = FALSE
  /\ ibody = << >>

\* HeadHandler.element runs on a head element.
HeadElement ==
  /\ ~iheadRan
  /\ iheadRan' = TRUE
  /\ ihead' = HeadHandler_element(icfg)
  /\ UNCHANGED << icfg, ibodyRan, ibody >>
  /\ UNCHANGED nonInject

\* BodyHandler.element runs on a body element.
BodyElement ==
  /\ ~ibodyRan
  /\ ibodyRan' = TRUE
  /\ ibody' = BodyHandler_element(icfg)
  /\ UNCHANGED << icfg, iheadRan, ihead >>
  /\ UNCHANGED nonInject

InjectNext ==
  \/ HeadElement
  \/ BodyElement

(***************************************************************************)
(* The service worker (public/sw-handler.js)                               *)
(*                                                                         *)
(* A request is [origin, path]. A response is [status, type, from], from   *)
(* naming the network exchange that produced it. CacheStorage is the       *)
(* sequence of the origin's caches in creation order, each [name, id,      *)
(* entries]; id tells a cache from a later one of the same name, entries   *)
(* is a set of [req, resp] with one entry for a request at most.           *)
(***************************************************************************)

CACHE_NAME == "comet-cache-v1"
PROXY_ENDPOINT == S(<<"/","p","r","o","x","y","/">>)

\* A cache name left by an earlier version of the worker.
OldCacheName == "comet-cache-v0"

\* self.location.origin and another origin.
SelfOrigin == "self"
ExtOrigin == "ext"

CepJsPath == S(<<"/","c","e","p",".","j","s">>)
SwHandlerPath == S(<<"/","s","w","-","h","a","n","d","l","e","r">>)
ProxiedPath == PROXY_ENDPOINT \o S(<<"x">>)
ExtPath == S(<<"/","x">>)

Request(origin, path) == [origin |-> origin, path |-> path]

\* undefined: what caches.match resolves to when nothing matches.
Undefined == [status |-> 0, type |-> "undefined", from |-> [by |-> "nobody", n |-> 0]]

NetworkResponse(status, type, by, n) ==
  [status |-> status, type |-> type, from |-> [by |-> by, n |-> n]]

\* caches.keys(): the names in creation order.
cachesKeys(cs) == [i \in DOMAIN cs |-> cs[i].name]

cachesHas(cs, name) == \E i \in DOMAIN cs : cs[i].name = name

\* caches.open(name): the cache of that name, created last if there is none.
cachesOpen(cs, name, id) ==
  IF cachesHas(cs, name) THEN cs
  ELSE Append(cs, [name |-> name, id |-> id, entries |-> {}])

\* The id of the cache caches.open(name) resolves to.
cachesOpened(cs, name, id) ==
  IF cachesHas(cs, name) THEN cs[CHOOSE i \in DOMAIN cs : cs[i].name = name].id ELSE id

\* caches.delete(name).
cachesDelete(cs, name) == SelectSeq(cs, LAMBDA c : c.name # name)

\* cache.match(request) on one cache.
cacheMatch(entries, req) ==
  IF \E e \in entries : e.req = req
  THEN (CHOOSE e \in entries : e.req = req).resp
  ELSE Undefined

\* caches.match(request): the first match, the caches taken in creation order.
cachesMatch(cs, req) ==
  LET hits == {i \in DOMAIN cs : cacheMatch(cs[i].entries, req) # Undefined}
  IN  IF hits = {} THEN Undefined
      ELSE cacheMatch(cs[CHOOSE i \in hits : \A j \in hits : i <= j].entries, req)

\* cache.put(request, response) on one cache: the entry for the request is
\* replaced.
cachePut(entries, req, resp) ==
  {e \in entries : e.req # req} \cup {[req |-> req, resp |-> resp]}

\* cache.put through a Cache object obtained earlier: a cache deleted since is
\* no longer in CacheStorage and the entry is not seen again.
cachesPut(cs, id, req, resp) ==
  [i \in DOMAIN cs |->
     IF cs[i].id = id THEN [cs[i] EXCEPT !.entries = cachePut(@, req, resp)] ELSE cs[i]]

\* A mutation of the fetch listener's first test: nothing is left alone.
IsProxyRequestNever(req) == FALSE

\* Line 62: url.pathname.startsWith(PROXY_ENDPOINT).
IsProxyRequest(req) == StartsWith(req.path, PROXY_ENDPOINT)

\* Line 67: url.origin === self.location.origin.
IsSameOrigin(req) == req.origin = SelfOrigin

\* A mutation of the cache test: the cached response is never used.
IsCachedNever(res) == FALSE

\* Lines 70 and 79: the truthiness of what caches.match resolved to.
IsCached(res) == res # Undefined

\* A mutation of line 98: the status is not looked at.
IsCacheableAnyStatus(res) ==
  ~(res = Undefined \/ res.type = "error")

\* Line 98, negated: the response is one fetchAndCache stores.
IsCacheable(res) ==
  ~(res = Undefined \/ res.status # 200 \/ res.type = "error")

\* Most fetch events dispatched to the worker.
MaxEvents == 2

Requests ==
  {Request(SelfOrigin, CepJsPath), Request(SelfOrigin, ProxiedPath),
   Request(ExtOrigin, ExtPath), Request(ExtOrigin, ProxiedPath)}

\* How a network exchange ends: a response with a status, an opaque response
\* (a no-cors request to another origin), or a rejection.
NetworkOutcomes(req) ==
  {"200", "404", "reject"} \cup (IF req.origin = SelfOrigin THEN {} ELSE {"opaque"})

\* The response fetch resolves to: basic for the worker's own origin, cors or
\* opaque for another one; an opaque response shows status 0.
FetchResponse(req, outcome, by, n) ==
  NetworkResponse(IF outcome = "200" THEN 200 ELSE IF outcome = "404" THEN 404 ELSE 0,
                  IF outcome = "opaque" THEN "opaque"
                  ELSE IF req.origin = SelfOrigin THEN "basic" ELSE "cors",
                  by, n)

\* What the page gets when the promise given to respondWith rejects.
NetworkError == [status |-> 0, type |-> "rejected", from |-> [by |-> "nobody", n |-> 0]]

\* Not yet answered.
Pending == [status |-> 0, type |-> "pending", from |-> [by |-> "nobody", n |-> 0]]

\* CacheStorage outlives the worker: what an earlier run may have left.
EarlierEntry == [req |-> Request(ExtOrigin, ExtPath),
                 resp |-> NetworkResponse(200, "cors", "earlier", 1)]
InitialCaches ==
  {<< >>,
   << [name |-> OldCacheName, id |-> 1, entries |-> {EarlierEntry}] >>,
   << [name |-> CACHE_NAME, id |-> 1, entries |-> {EarlierEntry}] >>,
   << [name |-> OldCacheName, id |-> 1, entries |-> {}],
      [name |-> CACHE_NAME, id |-> 2, entries |-> {EarlierEntry}] >>}

\* The CLEAR_CACHE command: its stage and the names still to delete; arrivedIn
\* and opsThen keep whether the worker was active and the number of fetchAndCache
\* calls made when the message arrived, reportedWith the cache names at the report.
NoClear ==
  [stage |-> "idle", pending |-> {}, arrivedIn |-> "", opsThen |-> 0,
   reportedWith |-> << >>]

\* The worker's lifecycle: its phase, the cache the install listener opened
\* and the names the activate listener has still to delete.
Lifecycle(phase) == [phase |-> phase, cacheId |-> 0, pending |-> {}]

\* A mutation of the activate listener's filter: every name is deleted.
StaleCachesAll(names) == names

\* Line 45: the names other than CACHE_NAME.
StaleCaches(names) == names \ {CACHE_NAME}

WorkerOff ==
  /\ swState = Lifecycle("off")
  /\ caches = << >>
  /\ nextCacheId = 0
  /\ events = << >>
  /\ ops = << >>
  /\ clear = NoClear

\* The script has been evaluated: a new worker about to be installed, or an
\* active one started again, whose activation has left no cache of another name.
WorkerInit ==
  /\ swState \in {Lifecycle("parsed"), Lifecycle("activated")}
  /\ caches \in InitialCaches
  /\ swState.phase = "activated" => \A c \in DOMAIN caches : caches[c].name = CACHE_NAME
  /\ nextCacheId = 3
  /\ events = << >>
  /\ ops = << >>
  /\ clear = NoClear

\* install listener, lines 17-33: caches.open is called, skipWaiting is called.
Install ==
  /\ swState.phase = "parsed"
  /\ swState' = [swState EXCEPT !.phase = "installing"]
  /\ UNCHANGED << caches, nextCacheId, events, ops, clear >>
  /\ UNCHANGED nonWorker

\* Line 21: caches.open(CACHE_NAME) resolves; cache.addAll is called.
InstallOpens ==
  /\ swState.phase = "installing"
  /\ caches' = cachesOpen(caches, CACHE_NAME, nextCacheId)
  /\ nextCacheId' = IF cachesHas(caches, CACHE_NAME) THEN nextCacheId ELSE nextCacheId + 1
  /\ swState' = [swState EXCEPT !.phase = "adding",
                                !.cacheId = cachesOpened(caches, CACHE_NAME, nextCacheId)]
  /\ UNCHANGED << events, ops, clear >>
  /\ UNCHANGED nonWorker

\* Lines 22-27: addAll stores both assets, or fails as a whole and the failure
\* is caught; either way the install is over.
InstallAdds ==
  /\ swState.phase = "adding"
  /\ \E ok \in BOOLEAN :
       caches' =
         IF ok
         THEN cachesPut(cachesPut(caches, swState.cacheId,
                                  Request(SelfOrigin, CepJsPath),
                                  NetworkResponse(200, "basic", "install", 1)),
                        swState.cacheId, Request(SelfOrigin, SwHandlerPath),
                        NetworkResponse(200, "basic", "install", 2))
         ELSE caches
  /\ swState' = [swState EXCEPT !.phase = "installed"]
  /\ UNCHANGED << nextCacheId, events, ops, clear >>
  /\ UNCHANGED nonWorker

\* activate listener, lines 38-42: caches.keys() is called.
Activate ==
  /\ swState.phase = "installed"
  /\ swState' = [swState EXCEPT !.phase = "activating"]
  /\ UNCHANGED << caches, nextCacheId, events, ops, clear >>
  /\ UNCHANGED nonWorker

\* Lines 42-47: keys() resolves; caches.delete is called for every name but
\* CACHE_NAME.
ActivateKeys ==
  /\ swState.phase = "activating"
  /\ swState' = [swState EXCEPT
                   !.phase = "deleting",
                   !.pending = StaleCaches({caches[i].name : i \in DOMAIN caches})]
  /\ UNCHANGED << caches, nextCacheId, events, ops, clear >>
  /\ UNCHANGED nonWorker

\* One of activate's caches.delete calls takes effect.
ActivateDeletes ==
  /\ swState.phase = "deleting"
  /\ \E name \in swState.pending :
       /\ caches' = cachesDelete(caches, name)
       /\ swState' = [swState EXCEPT !.pending = @ \ {name}]
  /\ UNCHANGED << nextCacheId, events, ops, clear >>
  /\ UNCHANGED nonWorker

\* Lines 48-51: every deletion has resolved; clients.claim().
ActivateClaims ==
  /\ swState.phase = "deleting"
  /\ swState.pending = {}
  /\ swState' = [swState EXCEPT !.phase = "activated"]
  /\ UNCHANGED << caches, nextCacheId, events, ops, clear >>
  /\ UNCHANGED nonWorker

\* fetchAndCache(request) is called, line 95: fetch(request) is under way.
NewOp(event, req, background) ==
  [event |-> event, req |-> req, background |-> background, stage |-> "fetching",
   res |-> Pending, cacheId |-> 0]

\* fetch listener, lines 58-89, up to its return: a request whose path starts
\* with PROXY_ENDPOINT is left to the browser (no respondWith); for any other
\* one respondWith is called and caches.match is under way.
FetchEvent ==
  /\ swState.phase = "activated"
  /\ Len(events) < MaxEvents
  /\ \E req \in Requests :
       events' = Append(events,
                        [req |-> req,
                         respondWith |-> ~IsProxyRequest(req),
                         stage |-> IF IsProxyRequest(req) THEN "unhandled" ELSE "matching",
                         lookedUp |-> FALSE,
                         matched |-> Undefined,
                         delivered |-> Pending])
  /\ UNCHANGED << swState, caches, nextCacheId, ops, clear >>
  /\ UNCHANGED nonWorker

\* caches.match resolves and its callback runs: lines 69-71 for a same-origin
\* request, lines 78-87 for any other.
MatchResolves ==
  /\ \E i \in DOMAIN events :
       /\ events[i].stage = "matching"
       /\ LET req == events[i].req
              cached == cachesMatch(caches, req)
              found == [events[i] EXCEPT !.lookedUp = TRUE, !.matched = cached]
          IN  IF IsSameOrigin(req)
              THEN /\ events' =
                        [events EXCEPT ![i] =
                           IF IsCached(cached)
                           THEN [found EXCEPT !.delivered = cached, !.stage = "done"]
                           ELSE [found EXCEPT !.stage = "fetching"]]
                   /\ UNCHANGED ops
              ELSE /\ events' =
                        [events EXCEPT ![i] =
                           IF IsCached(cached)
                           THEN [found EXCEPT !.delivered = cached, !.stage = "done"]
                           ELSE [found EXCEPT !.stage = "awaiting"]]
                   /\ ops' = Append(ops, NewOp(i, req, IsCached(cached)))
  /\ UNCHANGED << swState, caches, nextCacheId, clear >>
  /\ UNCHANGED nonWorker

\* Line 70: the plain fetch of a same-origin request settles.
FetchSettles ==
  /\ \E i \in DOMAIN events :
       /\ events[i].stage = "fetching"
       /\ \E outcome \in NetworkOutcomes(events[i].req) :
            events' =
              [events EXCEPT
                 ![i].stage = "done",
                 ![i].delivered = IF outcome = "reject" THEN NetworkError
                                  ELSE FetchResponse(events[i].req, outcome, "event", i)]
  /\ UNCHANGED << swState, caches, nextCacheId, ops, clear >>
  /\ UNCHANGED nonWorker

\* The event a fetchAndCache call answers, once its fetch has settled with res.
Answered(evs, op, res) ==
  IF op.background THEN evs
  ELSE [evs EXCEPT ![op.event].stage = "done", ![op.event].delivered = res]

\* fetchAndCache, lines 95-114: fetch settles. A rejection is thrown again; a
\* response that is not to be cached is returned; otherwise caches.open is
\* called and the response is returned without waiting for it.
OpFetchSettles ==
  /\ \E k \in DOMAIN ops :
       /\ ops[k].stage = "fetching"
       /\ \E outcome \in NetworkOutcomes(ops[k].req) :
            LET res == FetchResponse(ops[k].req, outcome, "op", k)
            IN  IF outcome = "reject"
                THEN /\ ops' = [ops EXCEPT ![k].stage = "failed"]
                     /\ events' = Answered(events, ops[k], NetworkError)
                ELSE /\ ops' = [ops EXCEPT
                                  ![k].res = res,
                                  ![k].stage = IF IsCacheable(res) THEN "opening"
                                               ELSE "done"]
                     /\ events' = Answered(events, ops[k], res)
  /\ UNCHANGED << swState, caches, nextCacheId, clear >>
  /\ UNCHANGED nonWorker

\* Line 105: caches.open(CACHE_NAME) resolves; cache.put is called.
OpOpens ==
  /\ \E k \in DOMAIN ops :
       /\ ops[k].stage = "opening"
       /\ ops' = [ops EXCEPT
                    ![k].stage = "putting",
                    ![k].cacheId = cachesOpened(caches, CACHE_NAME, nextCacheId)]
  /\ caches' = cachesOpen(caches, CACHE_NAME, nextCacheId)
  /\ nextCacheId' = IF cachesHas(caches, CACHE_NAME) THEN nextCacheId ELSE nextCacheId + 1
  /\ UNCHANGED << swState, events, clear >>
  /\ UNCHANGED nonWorker

\* Line 106: cache.put takes effect.
OpPuts ==
  /\ \E k \in DOMAIN ops :
       /\ ops[k].stage = "putting"
       /\ caches' = cachesPut(caches, ops[k].cacheId, ops[k].req, ops[k].res)
       /\ ops' = [ops EXCEPT ![k].stage = "done"]
  /\ UNCHANGED << swState, nextCacheId, events, clear >>
  /\ UNCHANGED nonWorker

\* message listener, lines 127-129: a CLEAR_CACHE message; caches.keys() is
\* called.
ClearCache ==
  /\ swState.phase # "off"
  /\ clear.stage = "idle"
  /\ clear' = [clear EXCEPT
                  !.stage = "keys",
                  !.arrivedIn = IF swState.phase = "activated" THEN "activated"
                                ELSE "earlier",
                  !.opsThen = Len(ops)]
  /\ UNCHANGED << swState, caches, nextCacheId, events, ops >>
  /\ UNCHANGED nonWorker

\* Lines 129-132: keys() resolves; caches.delete is called for every name.
ClearKeys ==
  /\ clear.stage = "keys"
  /\ clear' = [clear EXCEPT !.stage = "deleting",
                            !.pending = {caches[i].name : i \in DOMAIN caches}]
  /\ UNCHANGED << swState, caches, nextCacheId, events, ops >>
  /\ UNCHANGED nonWorker

\* One of the caches.delete calls takes effect.
ClearDeletes ==
  /\ clear.stage = "deleting"
  /\ \E name \in clear.pending :
       /\ caches' = cachesDelete(caches, name)
       /\ clear' = [clear EXCEPT !.pending = @ \ {name}]
  /\ UNCHANGED << swState, nextCacheId, events, ops >>
  /\ UNCHANGED nonWorker

\* Lines 133-135: every deletion has resolved; { success: true } is posted.
\* reportedWith keeps the cache names of that moment.
ClearReports ==
  /\ clear.stage = "deleting"
  /\ clear.pending = {}
  /\ clear' = [clear EXCEPT !.stage = "reported", !.reportedWith = cachesKeys(caches)]
  /\ UNCHANGED << swState, caches, nextCacheId, events, ops >>
  /\ UNCHANGED nonWorker

WorkerNext ==
  \/ Install
  \/ InstallOpens
  \/ InstallAdds
  \/ Activate
  \/ ActivateKeys
  \/ ActivateDeletes
  \/ ActivateClaims
  \/ FetchEvent
  \/ MatchResolves
  \/ FetchSettles
  \/ OpFetchSettles
  \/ OpOpens
  \/ OpPuts
  \/ ClearCache
  \/ ClearKeys
  \/ ClearDeletes
  \/ ClearReports

(***************************************************************************)
(* Specifications                                                          *)
(***************************************************************************)

Init == HandlerInit /\ CodecOff /\ InjectOff /\ WorkerOff
Next == HandlerNext
Spec == Init /\ [][Next]_vars

InitCodec == HandlerInit /\ CodecInit /\ InjectOff /\ WorkerOff
NextCodec == CodecNext
SpecCodec == InitCodec /\ [][NextCodec]_vars

\* The client closes its connection while the handler waits for the upstream
\* fetch or while the body streams. The handler never reads req.signal and
\* gives fetch no signal (lines 101-105), so nothing in it reacts.
ClientDisconnects ==
  /\ pc \in {"FetchingUpstream", "Streaming"}
  /\ client = "connected"
  /\ client' = pc
  /\ UNCHANGED << pc, reqPath, reqUserAgent, decoded, edgeConfig, fetchCalls, upstream,
                  response, engineInvoked, pos, open, out, headInjections,
                  bodyInjections, configLoad >>
  /\ UNCHANGED nonHandler

\* The platform cancels the body of a response whose client is gone; the
\* cancellation passes through rewriter.transform (line 120) to the upstream
\* body it reads from.
StreamCancelled ==
  /\ pc = "Streaming"
  /\ client # "connected"
  /\ upstream' = [upstream EXCEPT !.outcome = "cancelled"]
  /\ pc' = "Cancelled"
  /\ UNCHANGED << reqPath, reqUserAgent, decoded, edgeConfig, fetchCalls, response,
                  engineInvoked, pos, open, out, headInjections, bodyInjections,
                  configLoad, client >>
  /\ UNCHANGED nonHandler

\* The handler with a client that can go away.
NextCancel ==
  \/ HandlerNext
  \/ ClientDisconnects
  \/ StreamCancelled
SpecCancel == Init /\ [][NextCancel]_vars

\* The handler with a configuration store whose read can fail.
NextConfig ==
  \/ HandlerNext
  \/ LoadConfigFailsAndFetch
SpecConfig == Init /\ [][NextConfig]_vars

InitWorker == HandlerInit /\ CodecOff /\ InjectOff /\ WorkerInit
NextWorker == WorkerNext
SpecWorker == InitWorker /\ [][NextWorker]_vars

InitInject == HandlerInit /\ CodecOff /\ InjectInit /\ WorkerOff
NextInject == InjectNext
SpecInject == InitInject /\ [][NextInject]_vars

(***************************************************************************)
(* Properties                                                              *)
(***************************************************************************)

\* C1: while a document streams through the rewriter, the head injection is
\* performed at most once and the body injection at most once, however many
\* head or body elements the document has.
InjectionsAtMostOnce == headInjections <= 1 /\ bodyInjections <= 1

\* C2: every response returned after the upstream fetch succeeded, rewritten or
\* passed through, carries X-Proxied-By and Access-Control-Allow-Origin: *.
ProxyHeadersOnEveryResponse ==
  (upstream.outcome = "response" /\ response.sent) =>
    /\ HeadersHas(response.headers, XProxiedBy)
    /\ HeadersGet(response.headers, AccessControlAllowOrigin) = Star

\* A request path with nothing after the proxy prefix, or without the prefix.
MissingTarget(path) == ~StartsWith(path, ProxyEndpoint) \/ path = ProxyEndpoint

\* C3: a request whose target is empty or missing is answered with status 400
\* and no upstream fetch is issued for it.
MissingTargetIs400WithoutFetch ==
  (pc # "Idle" /\ MissingTarget(reqPath)) =>
    /\ fetchCalls = << >>
    /\ response.sent => response.status = 400

\* C4: when the upstream fetch fails, the response has status 500, content type
\* text/plain and a body containing the error message, and nothing of a
\* rewritten document is emitted.
FetchFailureIs500PlainText ==
  upstream.outcome = "error" =>
    /\ response.sent
    /\ response.status = 500
    /\ HeadersGet(response.headers, ContentType) = TextPlain
    /\ \E i \in DOMAIN response.text : response.text[i] = upstream.message
    /\ ~engineInvoked
    /\ out = << >>

FetchFailureWitness ==
  /\ pc = "Done"
  /\ upstream.outcome = "error"
  /\ upstream.message = "fetch failed"
  /\ HasScheme(decoded)

\* C5: every request, whatever its path, ends in a response; no failure leaves
\* the handler as an uncaught exception.
EveryRequestIsAnswered == pc # "Threw" /\ (pc = "Done" => response.sent)

\* The media type of a content-type header: what precedes the parameters, in
\* lower case.
MediaType(contentType) ==
  LET semi == IndexOf(contentType, << 59 >>)
  IN  ToLower(Trim(IF semi = 0 THEN contentType ELSE SubSeq(contentType, 1, semi - 1)))

FetchedUrlIsAbsoluteTarget ==
  \A i \in DOMAIN fetchCalls :
    /\ fetchCalls[i].url = decodedUrl(reqPath).val
    /\ HasScheme(fetchCalls[i].url)

\* An input the rewrite must leave alone.
IsSkipped(url) == url = << >> \/ \E p \in SkippedSchemes : StartsWith(url, p)

\* C8: for an input that is empty or starts with data:, javascript: or blob:,
\* the server's rewriteUrl and the client's URLUtils.rewrite both return the
\* input unchanged.
SkippedInputsUnchanged ==
  (cstage \in {"rewritten", "decoded"} /\ IsSkipped(cin)) => cout = cin

\* An absolute URL the rewrite applies to.
IsRewrittenAbsoluteUrl(url) ==
  HasScheme(url) /\ ~IsSkipped(url) /\ UrlParse(url, LocationOrigin).ok

\* C9 as stated: for an absolute URL u outside data:, javascript: and blob:, the
\* rewritten value starts with /proxy/ and decoding its suffix, by the client
\* utility or by the handler serving a request for it, recovers u.
RewriteRoundTripsExactly ==
  (cstage \in {"rewritten", "decoded"} /\ IsRewrittenAbsoluteUrl(cin)) =>
    /\ StartsWith(cout, ProxyEndpoint)
    /\ cstage = "decoded" => (cdec.ok /\ cdec.val = cin)

\* C9 as amended: the value rewritten by the server decodes to u itself; the
\* value rewritten by the client decodes to the normalized form of u, which is
\* new URL(u).href.
RewriteRoundTripsUpToNormalization ==
  (cstage \in {"rewritten", "decoded"} /\ IsRewrittenAbsoluteUrl(cin)) =>
    /\ StartsWith(cout, ProxyEndpoint)
    /\ cstage = "decoded" =>
         /\ cdec.ok
         /\ cdec.val = IF cside = "server" THEN cin
                       ELSE UrlParse(cin, LocationOrigin).href

RewriteRoundTripWitness ==
  /\ cstage = "decoded"
  /\ cside = "client"
  /\ cby = "handler"
  /\ IsRewrittenAbsoluteUrl(cin)
  /\ cdec.ok
  /\ cdec.val # cin

\* The tokens of the upstream body as they were emitted, without the fragments
\* the handlers appended.
Emitted == SelectSeq(out, LAMBDA t : t.k # "inject")

\* C10: the rewriter changes an attribute value only if the attribute is one of
\* href, src, action, data and the tag is one of a, link, script, img, iframe,
\* form; no attribute is added, removed or moved.
AttributesFramed ==
  engineInvoked =>
    /\ Len(Emitted) = pos - 1
    /\ \A i \in DOMAIN Emitted :
         LET before == upstream.body[i]
             after == Emitted[i]
         IN  /\ after.k = before.k
             /\ after.tag = before.tag
             /\ Len(after.attrs) = Len(before.attrs)
             /\ \A j \in DOMAIN before.attrs :
                  /\ after.attrs[j].name = before.attrs[j].name
                  /\ after.attrs[j].value # before.attrs[j].value =>
                       /\ before.attrs[j].name \in {"href", "src", "action", "data"}
                       /\ before.tag \in {"a", "link", "script", "img", "iframe", "form"}

AttributesFramedWitness ==
  /\ pc = "Done"
  /\ engineInvoked
  /\ \E i \in DOMAIN Emitted :
       /\ upstream.body[i].tag = "a"
       /\ upstream.body[i].attrs =
            << [name |-> "href", value |-> HttpA], [name |-> "id", value |-> HttpA] >>
       /\ Emitted[i].attrs =
            << [name |-> "href", value |-> ProxyEndpoint \o encodeURIComponent(HttpA)],
               [name |-> "id", value |-> HttpA] >>

\* C11: the debug-tool script reference (head) and the debug control (body) are
\* injected if and only if the debug-tool flag is not explicitly false; the
\* bootstrap script reference /cep.js is injected into the head in every case.
DebugToolDefaultOn ==
  LET explicitlyFalse == icfg.DEV_FEATURES.present /\ icfg.DEV_FEATURES.eruda = "false"
      InHead(f) == \E i \in DOMAIN ihead : ihead[i] = f
      InBody(f) == \E i \in DOMAIN ibody : ibody[i] = f
  IN  /\ iheadRan => /\ InHead(Fragment("script:/cep.js"))
                     /\ InHead(Fragment("script:eruda")) <=> ~explicitlyFalse
      /\ ibodyRan => (InBody(Fragment("div#cep-debug-trigger")) <=> ~explicitlyFalse)

DebugToolDefaultOnWitness ==
  /\ iheadRan /\ ibodyRan
  /\ ~icfg.DEV_FEATURES.present
  /\ ihead = << Fragment("script:/cep.js"), Fragment("script:eruda") >>
  /\ ibody = << Fragment("div#cep-debug-trigger") >>

\* The fragments that stand directly before position i of the output.
InjectedBefore(i) ==
  LET from == CHOOSE j \in 1..i :
                /\ \A k \in j..(i - 1) : out[k].k = "inject"
                /\ j > 1 => out[j - 1].k # "inject"
  IN  SubSeq(out, from, i - 1)

\* C12: injection removes, replaces and reorders no token of the upstream body;
\* the injected fragments stand directly before the end tag of a head or body
\* element, after all of its children, and in a head the bootstrap script
\* reference comes before the debug-tool script reference.
InjectionAppendsInOrder ==
  engineInvoked =>
    /\ Len(Emitted) = pos - 1
    /\ \A i \in DOMAIN Emitted :
         Emitted[i].k = upstream.body[i].k /\ Emitted[i].tag = upstream.body[i].tag
    /\ out # << >> => out[Len(out)].k # "inject"
    /\ \A i \in DOMAIN out :
         out[i].k # "inject" =>
           IF out[i] = EndTag("head")
           THEN InjectedBefore(i) \in
                  {<< Fragment("script:/cep.js") >>,
                   << Fragment("script:/cep.js"), Fragment("script:eruda") >>}
           ELSE IF out[i] = EndTag("body")
           THEN InjectedBefore(i) \in {<< >>, << Fragment("div#cep-debug-trigger") >>}
           ELSE InjectedBefore(i) = << >>

InjectionAppendsInOrderWitness ==
  /\ pc = "Done"
  /\ \E i \in DOMAIN out :
       /\ i + 3 \in DOMAIN out
       /\ SubSeq(out, i, i + 3) =
            << Text, Fragment("script:/cep.js"), Fragment("script:eruda"), EndTag("head") >>
  /\ \E i \in DOMAIN out :
       /\ i + 2 \in DOMAIN out
       /\ SubSeq(out, i, i + 2) =
            << EndTag("a"), Fragment("div#cep-debug-trigger"), EndTag("body") >>

\* A relative URL the rewrite applies to.
IsRewrittenRelativeUrl(url) ==
  ~HasScheme(url) /\ ~IsSkipped(url) /\ UrlParse(url, LocationOrigin).ok

\* C13: for a relative URL, the value rewritten by the server and the value
\* rewritten by the client are both /proxy/ followed by the percent-encoding of
\* the URL resolved against the base origin.
RelativeUrlsResolvedBeforeEncoding ==
  (cstage \in {"rewritten", "decoded"} /\ IsRewrittenRelativeUrl(cin)) =>
    cout = ProxyEndpoint \o encodeURIComponent(UrlParse(cin, LocationOrigin).href)

\* C14: when the configuration cannot be loaded the request goes on with the
\* default configuration: the debug tool enabled, no other flag on, an empty
\* blocklist; what is injected is what the defaults inject, and the only 500 is
\* the one a failed upstream fetch produces.
ConfigLoadFailureFallsBack ==
  configLoad = "failed" =>
    /\ pc \in {"FetchingUpstream", "Branching", "Streaming", "Done"}
    /\ Len(fetchCalls) = 1
    /\ ErudaEnabled(edgeConfig)
    /\ edgeConfig.DEV_FEATURES.customTheme \in {"false", "undefined"}
    /\ edgeConfig.BLOCKLIST = << >>
    /\ \A tag \in {"head", "body"} :
         Appended(tag, edgeConfig) = Appended(tag, getEdgeConfig)
    /\ \A i \in DOMAIN open :
         open[i].appended = Appended(open[i].tag, getEdgeConfig)
    /\ response.status = 500 => upstream.outcome = "error"

ConfigLoadFailureWitness ==
  /\ configLoad = "failed"
  /\ pc = "Done"
  /\ response.status = 200
  /\ \E i \in DOMAIN out : out[i] = Fragment("script:eruda")
  /\ \E i \in DOMAIN out : out[i] = Fragment("div#cep-debug-trigger")

\* C15: once the client has disconnected during the upstream fetch, the fetch
\* is aborted: it does not go on to deliver the upstream response.
DisconnectAbortsUpstreamFetch ==
  client = "FetchingUpstream" => upstream.outcome # "response"

\* The fetchAndCache calls made for fetch event i.
OpsOf(i) == {k \in DOMAIN ops : ops[k].event = i}

\* Every entry of every cache.
AllEntries == UNION {caches[c].entries : c \in DOMAIN caches}

\* C16: a cross-origin request with a cached entry is answered with that entry
\* and a refresh is started in the background, whatever becomes of the refresh;
\* without a cached entry it is answered with the network result. A same-origin
\* request is answered with the cached entry if there is one and with the
\* network result otherwise, and never causes a cache write.
CacheFirstWithBackgroundRefresh ==
  /\ \A e \in AllEntries : e.resp.from.by # "event"
  /\ \A i \in DOMAIN events :
       LET e == events[i]
       IN  (e.respondWith /\ e.lookedUp) =>
             IF e.req.origin = SelfOrigin
             THEN /\ OpsOf(i) = {}
                  /\ e.matched # Undefined => e.stage = "done" /\ e.delivered = e.matched
                  /\ (e.matched = Undefined /\ e.stage = "done") =>
                       e.delivered \in
                         {NetworkError}
                           \cup {FetchResponse(e.req, o, "event", i) : o \in {"200", "404"}}
             ELSE /\ Cardinality(OpsOf(i)) = 1
                  /\ \A k \in OpsOf(i) :
                       /\ ops[k].req = e.req
                       /\ e.matched # Undefined =>
                            /\ ops[k].background
                            /\ e.stage = "done"
                            /\ e.delivered = e.matched
                       /\ e.matched = Undefined =>
                            /\ ~ops[k].background
                            /\ e.stage = "done" <=> ops[k].stage # "fetching"
                            /\ e.stage = "done" =>
                                 e.delivered = IF ops[k].stage = "failed" THEN NetworkError
                                               ELSE ops[k].res

CacheFirstWitness ==
  /\ Len(events) = 2
  /\ events[1].req = Request(ExtOrigin, ExtPath)
  /\ events[1].delivered = EarlierEntry.resp
  /\ \E k \in OpsOf(1) : ops[k].background /\ ops[k].stage = "failed"
  /\ events[2].req = Request(SelfOrigin, CepJsPath)
  /\ events[2].delivered = NetworkResponse(200, "basic", "install", 1)

\* C17: when { success: true } is posted for a CLEAR_CACHE that reached the
\* active worker, no cache exists, whatever the fetchAndCache calls in flight
\* at its arrival have done in between (no call has been made since).
ClearReportMeansNoCache ==
  (clear.stage = "reported" /\ clear.arrivedIn = "activated" /\ Len(ops) = clear.opsThen) =>
    clear.reportedWith = << >>

\* C18: every cache entry written by fetchAndCache is a status-200 response that
\* the call got from the network for that request; a response with another
\* status is returned to the caller and never stored.
OnlyNetwork200Stored ==
  /\ \A e \in AllEntries :
       e.resp.from.by = "op" =>
         /\ e.resp.status = 200
         /\ e.resp.type # "error"
         /\ e.resp.from.n \in DOMAIN ops
         /\ ops[e.resp.from.n].req = e.req
         /\ ops[e.resp.from.n].res = e.resp
  /\ \A k \in DOMAIN ops :
       (ops[k].res # Pending /\ ops[k].res.status # 200) =>
         /\ ops[k].stage = "done"
         /\ ~ops[k].background => events[ops[k].event].delivered = ops[k].res
         /\ \A e \in AllEntries : e.resp # ops[k].res

OnlyNetwork200StoredWitness ==
  /\ \E e \in AllEntries : e.resp.from.by = "op"
  /\ \E k \in DOMAIN ops :
       /\ ops[k].res.status = 404
       /\ ~ops[k].background
       /\ events[ops[k].event].delivered = ops[k].res

\* C19: for a request whose path starts with /proxy/ the worker does not call
\* respondWith, does not look the request up in the cache and stores nothing
\* for it: the request is left to the network.
ProxyRequestsNotIntercepted ==
  /\ \A i \in DOMAIN events :
       StartsWith(events[i].req.path, PROXY_ENDPOINT) =>
         /\ ~events[i].respondWith
         /\ events[i].stage = "unhandled"
         /\ ~events[i].lookedUp
         /\ events[i].delivered = Pending
         /\ OpsOf(i) = {}
  /\ \A e \in AllEntries : ~StartsWith(e.req.path, PROXY_ENDPOINT)

ProxyRequestsNotInterceptedWitness ==
  /\ Len(events) = 2
  /\ events[1].req = Request(SelfOrigin, ProxiedPath)
  /\ events[2].req = Request(ExtOrigin, ProxiedPath)
  /\ events[2].stage = "unhandled"

\* C20: once every fetchAndCache call has completed, the entry a request has in
\* the cache is the response of the call that was started last.
LastStartedRefreshWins ==
  (clear.stage = "idle" /\ \A k \in DOMAIN ops : ops[k].stage \in {"done", "failed"}) =>
    \A k \in DOMAIN ops :
      (/\ IsCacheable(ops[k].res)
       /\ \A j \in DOMAIN ops : ops[j].req = ops[k].req => j <= k) =>
        \A c \in DOMAIN caches :
          caches[c].id = ops[k].cacheId =>
            cacheMatch(caches[c].entries, ops[k].req) = ops[k].res

\* The caches of the current name, as they are.
CurrentCaches(cs) == SelectSeq(cs, LAMBDA c : c.name = CACHE_NAME)

\* C21: no step of the activate listener touches the cache named CACHE_NAME,
\* and when the listener claims the clients every deletion it started has
\* taken effect: no cache of another name is left.
ActivationDeletesStaleCachesThenClaims ==
  [][(swState.phase \in {"activating", "deleting"} /\ swState' # swState) =>
       /\ CurrentCaches(caches') = CurrentCaches(caches)
       /\ swState'.phase = "activated" =>
            /\ swState.pending = {}
            /\ \A c \in DOMAIN caches' : caches'[c].name = CACHE_NAME]_vars

\* The worker was installed and activated with an older cache (id 1) in place:
\* that cache is gone, the current one (id 2) is there with what it held.
ActivationWitness ==
  /\ swState.phase = "activated"
  /\ swState.cacheId = 2
  /\ clear.stage = "idle"
  /\ Len(caches) = 1
  /\ caches[1].name = CACHE_NAME
  /\ caches[1].id = 2
  /\ EarlierEntry \in caches[1].entries
====
